---------------------------- MODULE Spec2Model ----------------------------
(* A model of costela/golpa: the lp_solve backend (package golpa, with its  *)
(* read-write mutex, its abort callback and its handle registry) used by    *)
(* concurrent goroutines, and the GLPK backend (package golp) used by one   *)
(* caller.  The solver libraries themselves are black boxes: their calls    *)
(* are modelled by their documented effect on the problem object.           *)
EXTENDS Integers, Sequences, FiniteSets, TLC

VARIABLES
    scenario, \* what the run exercises: which backend, and which calls
    pc,       \* per goroutine: where it stands in the call it is executing
    loc,      \* per goroutine: arguments and locals of that call
    ret,      \* what the call that ended in the last step returned
    mu,       \* Model.mu (sync.RWMutex)
    prob,     \* Model.prob (*C.lprec): columns, rows, abort callback
    vars,     \* Model.vars: the index of each *Variable, in append order
    refs,     \* context.go refs: handle -> saved object
    ctxErr,   \* ctx.Err() of every context.Context
    glp,      \* the GLPK Model: problem object, vars, ia/ja/ar
    clone,    \* the Model returned by Model.Clone: its prob and its vars
    handles   \* per foreign problem handle: allocated or deleted, the
              \* finalizer set for it, whether the program still uses the Model

vars_all == <<scenario, pc, loc, ret, mu, prob, vars, refs, ctxErr, glp, clone, handles>>

-----------------------------------------------------------------------------
(* Bounds of the model *)

MaxCols == 2    \* AddDefinedVariable calls per run
MaxRows == 2    \* solver rows per run
MaxRefs == 3    \* entries of the handle registry per run
MaxArgs == 2    \* length of a variable or coefficient list

-----------------------------------------------------------------------------
(* Values *)

\* The goroutines of TestParallel.
Procs == {"g1", "g2"}
\* The single caller of the sequential tests.
SeqProcs == {"g1"}

None == "none"

\* The package the Model of the run comes from: golpa (lp_solve) or golp (GLPK).
Backend == IF scenario = "glpk" THEN "glpk" ELSE "lpsolve"
Scenarios == {"build", "plain", "cancel", "glpk"}

\* float64: <<0, n>> is the finite value n, <<1, 0>> is +Inf, <<-1, 0>> is -Inf.
Fin(n) == <<0, n>>
PosInf == <<1, 0>>
NegInf == <<-1, 0>>
\* math.IsInf(x, 0)
IsInf(x) == x[1] # 0
\* x <= y on float64
FLeq(x, y) ==
    \/ x = NegInf
    \/ y = PosInf
    \/ (~IsInf(x) /\ ~IsInf(y) /\ x[2] <= y[2])

ContinuousVariable == "Continuous"
IntegerVariable == "Integer"
BinaryVariable == "Binary"
VariableTypes == {ContinuousVariable, IntegerVariable, BinaryVariable}

\* The return codes of lp_solve's solve() that Model.Solve names.
SuccessCodes == {"OPTIMAL", "SUBOPTIMAL"}
FailureCodes == {"INFEASIBLE", "UNBOUNDED", "DEGENERATE", "NUMFAILURE",
                 "USERABORT", "TIMEOUT", "PROCFAIL", "PROCBREAK", "FEASFOUND",
                 "NOFEASFOUND", "NOMEMORY"}
\* Codes lp_solve documents for solve() that Model.Solve does not name.
OtherCodes == {"PRESOLVED", "ACCURACYERROR"}
AllCodes == SuccessCodes \cup FailureCodes \cup OtherCodes

ErrUserAbort == "USERABORT"
ErrPresolved == "PRESOLVED"
ErrInconsistent == "inconsistent number of variables and coefficients"
Nil == "nil"

\* A context made by context.WithCancel and one made by context.WithTimeout,
\* with the error each reports once it is done.
Ctxs == {"ctxCancel", "ctxTimeout"}
DoneErr(c) == IF c = "ctxCancel" THEN "Canceled" ELSE "DeadlineExceeded"

\* fmt.Sprintf("V%d", size)
SprintfV(size) == <<"V0", "V1", "V2", "V3", "V4", "V5", "V6", "V7">>[size + 1]

-----------------------------------------------------------------------------
(* The lp_solve problem object *)

\* A column as add_columnex(prob, 0, nil, nil) creates it.
NewColumn == [name |-> "", int |-> FALSE, lo |-> Fin(0), hi |-> PosInf, coef |-> 0]

\* direction
Minimize == "Minimize"
Maximize == "Maximize"

\* make_lp(0, 0), set_lp_name, set_sense as NewModel("test", Maximize) calls them
NewProb == [ncols |-> 0, nrows |-> 0, cols |-> <<>>, abort |-> 0,
            name |-> "test", dir |-> Maximize]

HasCol(p, col) == col \in 1..p.ncols

SetCol(p, col, field, val) ==
    IF HasCol(p, col) THEN [p EXCEPT !.cols[col][field] = val] ELSE p

\* set_bounds / set_unbounded / set_upbo / set_lowbo
SetColBounds(p, col, lo, hi) ==
    IF HasCol(p, col) /\ FLeq(lo, hi)
    THEN [p EXCEPT !.cols[col].lo = lo, !.cols[col].hi = hi]
    ELSE p

\* Variable.SetType
Variable_SetType(p, index, vartype) ==
    CASE vartype = ContinuousVariable -> SetCol(p, index + 1, "int", FALSE)
      [] vartype = IntegerVariable -> SetCol(p, index + 1, "int", TRUE)
      [] vartype = BinaryVariable ->
            SetColBounds(SetCol(p, index + 1, "int", TRUE), index + 1, Fin(0), Fin(1))

\* Variable.Type
Variable_Type(p, index) ==
    LET c == p.cols[index + 1] IN
    IF c.int /\ c.lo = Fin(0) /\ c.hi = Fin(1) THEN BinaryVariable
    ELSE IF c.int THEN IntegerVariable
    ELSE ContinuousVariable

\* Variable.SetBounds
Variable_SetBounds(p, index, lower, upper) ==
    CASE IsInf(lower) /\ IsInf(upper) -> SetColBounds(p, index + 1, NegInf, PosInf)
      [] IsInf(lower) /\ ~IsInf(upper) ->
            SetColBounds(SetColBounds(p, index + 1, NegInf, PosInf), index + 1, NegInf, upper)
      [] ~IsInf(lower) /\ IsInf(upper) ->
            SetColBounds(SetColBounds(p, index + 1, NegInf, PosInf), index + 1, lower, PosInf)
      [] OTHER -> SetColBounds(p, index + 1, lower, upper)

\* Variable.Bounds
Variable_Bounds(p, index) == <<p.cols[index + 1].lo, p.cols[index + 1].hi>>

\* set_obj called with the 0-based index of the Variable.
Variable_SetObjectiveCoefficient_ZeroBased(p, index, coef) == SetCol(p, index, "coef", coef)

\* Variable.SetObjectiveCoefficient
Variable_SetObjectiveCoefficient(p, index, coef) == SetCol(p, index + 1, "coef", coef)

\* Variable.Coefficient
Variable_Coefficient(p, index) == p.cols[index + 1].coef

\* Variable.Name
Variable_Name(p, index) == p.cols[index + 1].name

\* Model.SetDirection: set_sense
Model_SetDirection(p, dir) == [p EXCEPT !.dir = dir]

\* Model.Direction: is_maxim
Model_Direction(p) == IF p.dir = Maximize THEN Maximize ELSE Minimize

\* Model.Name: get_lp_name
Model_Name(p) == p.name

\* Model.VariableCount
VariableCount == prob.ncols

\* Model.Variables
Variables == vars

\* Model.ConstraintCount
ConstraintCount == prob.nrows

-----------------------------------------------------------------------------
(* Model.mu: w is the goroutine that is inside Lock() or holds the write   *)
(* lock, held tells which of the two, r counts the read locks held.        *)

NewMutex == [w |-> None, held |-> FALSE, r |-> 0]

\* RLock() returns at once: no writer holds the lock or waits for it.
CanRLock == mu.w = None

\* A Lock() that does not wait for the writer mutex.
CanLockRequest_NoWait == TRUE

\* Lock() takes the writer mutex and announces itself to the readers.
CanLockRequest == mu.w = None
LockRequest(g) == [mu EXCEPT !.w = g]

\* Lock() returns: the readers that were in have left.
CanLockAcquire(g) == mu.w = g /\ ~mu.held /\ mu.r = 0
LockAcquire(g) == [mu EXCEPT !.held = TRUE]

\* Unlock()
Unlock(g) == [mu EXCEPT !.w = None, !.held = FALSE]

-----------------------------------------------------------------------------
(* Goroutines *)

\* A call to one of the setters of Variable, or to Model.SetDirection.
Setter(f, index, kind, coef, lo, hi) ==
    [f |-> f, index |-> index, kind |-> kind, coef |-> coef, lo |-> lo, hi |-> hi]

\* A call to Model.SetDirection.
DirSetter(dir) ==
    [f |-> "SetDirection", index |-> 0, kind |-> ContinuousVariable, coef |-> 0,
     lo |-> NegInf, hi |-> PosInf, dir |-> dir]

NoLoc == [op |-> None, name |-> "", kind |-> ContinuousVariable, coef |-> 0,
          lo |-> NegInf, hi |-> PosInf, size |-> 0, v |-> 0,
          vs |-> <<>>, cs |-> <<>>, i |-> 0, todo |-> <<>>, calls |-> <<>>,
          ctx |-> None, h |-> 0, code |-> None, res |-> Nil, err |-> Nil,
          panicked |-> FALSE, pre |-> NewProb, preVars |-> <<>>]

\* op: the call; res, err, panicked: how it ended; v: the Variable returned;
\* code, solveRes, solveErr: what C.solve and Model.Solve returned inside it;
\* ctx, h, ctxErrAtReturn: the context, its handle, its Err() at the return;
\* vs, cs: the lists passed; pre, preVars: Model.prob and Model.vars at the call;
\* name, kind, coef, lo, hi: the attributes or bounds passed; size: the row
\* count at the call of AddConstraint; slot: the result slot read.
NoRet == [g |-> None, op |-> None, v |-> 0, res |-> Nil, err |-> Nil, panicked |-> FALSE,
          ctx |-> None, h |-> 0, code |-> None, solveRes |-> Nil, solveErr |-> Nil,
          ctxErrAtReturn |-> Nil,
          vs |-> <<>>, cs |-> <<>>, pre |-> NewProb, preVars |-> <<>>,
          name |-> "", kind |-> ContinuousVariable, coef |-> 0,
          lo |-> NegInf, hi |-> PosInf, size |-> 0, slot |-> 0]

Idle(g) == pc[g] = "idle"

\* The call of goroutine g ends: normally with r, or by a panic that its
\* caller recovers from (r.panicked).
Return(g, r) ==
    /\ pc' = [pc EXCEPT ![g] = "idle"]
    /\ loc' = [loc EXCEPT ![g] = NoLoc]
    /\ ret' = [r EXCEPT !.g = g]

\* A call of goroutine g begins at label with locals l.
Begin(g, label, l) ==
    /\ pc' = [pc EXCEPT ![g] = label]
    /\ loc' = [loc EXCEPT ![g] = l]
    /\ ret' = NoRet

Goto(g, label, l) ==
    /\ pc' = [pc EXCEPT ![g] = label]
    /\ loc' = [loc EXCEPT ![g] = l]
    /\ ret' = NoRet

\* Labels at which a goroutine executes a call into lp_solve on Model.prob.
InSolverCall(g) == pc[g] \in {"adv_crit", "set_call", "ac_call", "solve_call"}

\* Calls of AddDefinedVariable begun so far, finished or not.
Creations == Len(vars) + Cardinality({g \in Procs : pc[g] \in {"adv_lock", "adv_wait", "adv_crit"}})

-----------------------------------------------------------------------------
(* Model.AddDefinedVariable, src/log.go 283-319 *)

\* size := model.VariableCount()
AddDefinedVariable(g, name, varType, coefficient, lowerBound, upperBound) ==
    /\ Backend = "lpsolve"
    /\ Idle(g)
    /\ Creations < MaxCols
    /\ CanRLock
    /\ Begin(g, "adv_lock",
             [NoLoc EXCEPT !.op = "AddDefinedVariable", !.name = name,
                           !.kind = varType, !.coef = coefficient,
                           !.lo = lowerBound, !.hi = upperBound,
                           !.size = VariableCount])
    /\ UNCHANGED <<scenario, handles, clone, mu, prob, vars, refs, ctxErr, glp>>

\* model.mu.Lock() is entered
ADV_Lock(g) ==
    /\ pc[g] = "adv_lock"
    /\ CanLockRequest
    /\ mu' = LockRequest(g)
    /\ Goto(g, "adv_wait", loc[g])
    /\ UNCHANGED <<scenario, handles, clone, prob, vars, refs, ctxErr, glp>>

\* model.mu.Lock() returns
ADV_Locked(g) ==
    /\ pc[g] = "adv_wait"
    /\ CanLockAcquire(g)
    /\ mu' = LockAcquire(g)
    /\ Goto(g, "adv_crit", loc[g])
    /\ UNCHANGED <<scenario, handles, clone, prob, vars, refs, ctxErr, glp>>

\* The index of the solver's column, 1-based, taken for the index of the Variable.
NewIndex_OneBased(size) == size + 1

\* The index given to the new Variable.
NewIndex(size) == size

\* The setters AddDefinedVariable calls once the column exists.
ADV_Setters(index, varType, coefficient, lowerBound, upperBound) ==
    <<Setter("SetType", index, varType, 0, NegInf, PosInf),
      Setter("SetObjectiveCoefficient", index, ContinuousVariable, coefficient, NegInf, PosInf)>>
    \o (IF varType # BinaryVariable
        THEN <<Setter("SetBounds", index, ContinuousVariable, 0, lowerBound, upperBound)>>
        ELSE <<>>)

\* The locked section: the Variable, add_columnex, set_col_name; Unlock.
ADV_Critical(g) ==
    /\ pc[g] = "adv_crit"
    /\ LET l == loc[g]
           index == NewIndex(l.size)
           name == IF l.name = "" THEN SprintfV(l.size) ELSE l.name
           added == [prob EXCEPT !.ncols = @ + 1, !.cols = Append(@, NewColumn)]
       IN /\ vars' = Append(vars, index)
          /\ prob' = SetCol(added, index + 1, "name", name)
          /\ Goto(g, "set_lock",
                  [l EXCEPT !.v = Len(vars) + 1,
                            !.todo = ADV_Setters(index, l.kind, l.coef, l.lo, l.hi)])
    /\ mu' = Unlock(g)
    /\ UNCHANGED <<scenario, handles, clone, refs, ctxErr, glp>>

-----------------------------------------------------------------------------
(* Variable.SetType / SetObjectiveCoefficient / SetBounds (src/unnamed/      *)
(* part_000 57-136) and Model.SetDirection: Lock, one solver call, Unlock.   *)

ApplySetter(p, s) ==
    CASE s.f = "SetDirection" -> Model_SetDirection(p, s.dir)
      [] s.f = "SetType" -> Variable_SetType(p, s.index, s.kind)
      [] s.f = "SetObjectiveCoefficient" -> Variable_SetObjectiveCoefficient(p, s.index, s.coef)
      [] s.f = "SetBounds" -> Variable_SetBounds(p, s.index, s.lo, s.hi)

\* v.model.mu.Lock() is entered
Setter_Lock(g) ==
    /\ pc[g] = "set_lock"
    /\ CanLockRequest
    /\ mu' = LockRequest(g)
    /\ Goto(g, "set_wait", loc[g])
    /\ UNCHANGED <<scenario, handles, clone, prob, vars, refs, ctxErr, glp>>

\* v.model.mu.Lock() returns
Setter_Locked(g) ==
    /\ pc[g] = "set_wait"
    /\ CanLockAcquire(g)
    /\ mu' = LockAcquire(g)
    /\ Goto(g, "set_call", loc[g])
    /\ UNCHANGED <<scenario, handles, clone, prob, vars, refs, ctxErr, glp>>

\* What the caller of the setter does when it returns.
AfterSetter(g, l) ==
    IF l.todo # <<>> THEN Goto(g, "set_lock", l)
    ELSE IF l.op = "SetObjectiveFunction" THEN Goto(g, "sof_loop", l)
    ELSE Return(g, [NoRet EXCEPT !.op = l.op, !.v = l.v, !.name = l.name, !.kind = l.kind,
                                 !.coef = l.coef, !.lo = l.lo, !.hi = l.hi, !.pre = l.pre])

\* The solver call, then the deferred Unlock.
Setter_Call(g) ==
    /\ pc[g] = "set_call"
    /\ prob' = ApplySetter(prob, Head(loc[g].todo))
    /\ mu' = Unlock(g)
    /\ AfterSetter(g, [loc[g] EXCEPT !.todo = Tail(@)])
    /\ UNCHANGED <<scenario, handles, clone, vars, refs, ctxErr, glp>>

-----------------------------------------------------------------------------
(* Calls of the setters by the user of the package *)

SetType(g, v, vartype) ==
    /\ Backend = "lpsolve"
    /\ Idle(g)
    /\ v \in 1..Len(vars)
    /\ Begin(g, "set_lock",
             [NoLoc EXCEPT !.op = "SetType", !.v = v,
                           !.todo = <<Setter("SetType", vars[v], vartype, 0, NegInf, PosInf)>>])
    /\ UNCHANGED <<scenario, handles, clone, mu, prob, vars, refs, ctxErr, glp>>

SetBounds(g, v, lower, upper) ==
    /\ Backend = "lpsolve"
    /\ Idle(g)
    /\ v \in 1..Len(vars)
    /\ Begin(g, "set_lock",
             [NoLoc EXCEPT !.op = "SetBounds", !.v = v, !.lo = lower, !.hi = upper,
                           !.pre = prob,
                           !.todo = <<Setter("SetBounds", vars[v], ContinuousVariable, 0, lower, upper)>>])
    /\ UNCHANGED <<scenario, handles, clone, mu, prob, vars, refs, ctxErr, glp>>

SetDirection(g, dir) ==
    /\ Backend = "lpsolve"
    /\ Idle(g)
    /\ Begin(g, "set_lock", [NoLoc EXCEPT !.op = "SetDirection", !.todo = <<DirSetter(dir)>>])
    /\ UNCHANGED <<scenario, handles, clone, mu, prob, vars, refs, ctxErr, glp>>

SetObjectiveCoefficient(g, v, coef) ==
    /\ Backend = "lpsolve"
    /\ Idle(g)
    /\ v \in 1..Len(vars)
    /\ Begin(g, "set_lock",
             [NoLoc EXCEPT !.op = "SetObjectiveCoefficient", !.v = v,
                           !.todo = <<Setter("SetObjectiveCoefficient", vars[v], ContinuousVariable,
                                             coef, NegInf, PosInf)>>])
    /\ UNCHANGED <<scenario, handles, clone, mu, prob, vars, refs, ctxErr, glp>>

-----------------------------------------------------------------------------
(* Model.SetObjectiveFunction, src/log.go 327-332 *)

\* for i, v := range vars { v.SetObjectiveCoefficient(coefs[i]) }: the loop
\* at position l.i.  coefs[i] panics when i is out of range.
SOF_Iterate(g, l) ==
    IF l.i > Len(l.vs)
    THEN Return(g, [NoRet EXCEPT !.op = l.op, !.err = Nil, !.vs = l.vs, !.cs = l.cs,
                                 !.pre = l.pre, !.preVars = l.preVars])
    ELSE IF l.i > Len(l.cs)
    THEN Return(g, [NoRet EXCEPT !.op = l.op, !.panicked = TRUE, !.vs = l.vs, !.cs = l.cs,
                                 !.pre = l.pre, !.preVars = l.preVars])
    ELSE Goto(g, "set_lock",
              [l EXCEPT !.i = @ + 1,
                        !.todo = <<Setter("SetObjectiveCoefficient", vars[l.vs[l.i]],
                                          ContinuousVariable, l.cs[l.i], NegInf, PosInf)>>])

SetObjectiveFunction(g, coefs, vs) ==
    /\ Backend = "lpsolve"
    /\ Idle(g)
    /\ Begin(g, "sof_loop",
             [NoLoc EXCEPT !.op = "SetObjectiveFunction", !.vs = vs, !.cs = coefs,
                           !.i = 1, !.pre = prob, !.preVars = vars])
    /\ UNCHANGED <<scenario, handles, clone, mu, prob, vars, refs, ctxErr, glp>>

SOF_Loop(g) ==
    /\ pc[g] = "sof_loop"
    /\ SOF_Iterate(g, loc[g])
    /\ UNCHANGED <<scenario, handles, clone, mu, prob, vars, refs, ctxErr, glp>>

-----------------------------------------------------------------------------
(* Model.AddConstraint, src/log.go 348-375: no lock is taken *)

\* The add_constraintex calls of the switch, by constraint type.
AC_Calls(lower, upper) ==
    CASE IsInf(lower) /\ IsInf(upper) -> <<>>
      [] IsInf(lower) /\ ~IsInf(upper) -> <<"LE">>
      [] ~IsInf(lower) /\ IsInf(upper) -> <<"GE">>
      [] ~IsInf(lower) /\ ~IsInf(upper) /\ upper = lower -> <<"EQ">>
      [] OTHER -> <<"LE", "GE">>

\* The length test that only rejects a list of variables that is too long.
AC_Inconsistent_OneSided(vs, coefs) == Len(vs) > Len(coefs)

\* len(vars) != len(coefs)
AC_Inconsistent(vs, coefs) == Len(vs) # Len(coefs)

\* Rows that calls under way will still add.
PendingRows == LET n[S \in SUBSET Procs] ==
                       IF S = {} THEN 0
                       ELSE LET g == CHOOSE x \in S : TRUE
                            IN Len(loc[g].calls) + n[S \ {g}]
               IN n[Procs]

AddConstraint(g, lower, upper, vs, coefs) ==
    /\ Backend = "lpsolve"
    /\ Idle(g)
    /\ \/ AC_Inconsistent(vs, coefs)
       \/ prob.nrows + PendingRows + Len(AC_Calls(lower, upper)) <= MaxRows
    /\ LET r == [NoRet EXCEPT !.op = "AddConstraint", !.vs = vs, !.cs = coefs,
                              !.lo = lower, !.hi = upper, !.size = ConstraintCount]
       IN IF AC_Inconsistent(vs, coefs)
          THEN Return(g, [r EXCEPT !.err = ErrInconsistent])
          ELSE IF AC_Calls(lower, upper) = <<>>
          THEN Return(g, [r EXCEPT !.err = Nil])
          ELSE IF Len(vs) = 0
          THEN \* &row[0] of an empty slice
               Return(g, [r EXCEPT !.panicked = TRUE])
          ELSE Begin(g, "ac_call",
                     [NoLoc EXCEPT !.op = "AddConstraint", !.vs = vs, !.cs = coefs,
                                   !.lo = lower, !.hi = upper, !.size = ConstraintCount,
                                   !.calls = AC_Calls(lower, upper)])
    /\ UNCHANGED <<scenario, handles, clone, mu, prob, vars, refs, ctxErr, glp>>

\* add_constraintex returns.  It ran without the lock: when another goroutine
\* was inside a solver call on the same problem, the row count it wrote may
\* be lost.
AC_Call(g) ==
    /\ pc[g] = "ac_call"
    /\ \E n \in {prob.nrows + 1} \cup
                (IF \E h \in Procs \ {g} : InSolverCall(h) THEN {prob.nrows} ELSE {}) :
            prob' = [prob EXCEPT !.nrows = n]
    /\ LET l == [loc[g] EXCEPT !.calls = Tail(@)]
       IN IF l.calls # <<>> THEN Goto(g, "ac_call", l)
          ELSE Return(g, [NoRet EXCEPT !.op = "AddConstraint", !.err = Nil,
                                       !.vs = l.vs, !.cs = l.cs,
                                       !.lo = l.lo, !.hi = l.hi, !.size = l.size])
    /\ UNCHANGED <<scenario, handles, clone, mu, vars, refs, ctxErr, glp>>

-----------------------------------------------------------------------------
(* context.go: saveRef / loadRef; abortCallback, src/log.go 403-410 *)

IsContext(o) == o \in Ctxs

loadRef(ptr) == IF ptr \in 1..Len(refs) THEN refs[ptr] ELSE None

abortCallback(ctxPtr) ==
    LET ctx == loadRef(ctxPtr)
    IN IsContext(ctx) /\ ctxErr[ctx] # Nil

\* A context is cancelled or its deadline passes.
CtxDone(c) ==
    /\ ctxErr[c] = Nil
    /\ ctxErr' = [ctxErr EXCEPT ![c] = DoneErr(c)]
    /\ ret' = NoRet
    /\ UNCHANGED <<scenario, handles, clone, pc, loc, mu, prob, vars, refs, glp>>

-----------------------------------------------------------------------------
(* Model.Solve, src/log.go 380-400, and Model.SolveWithContext, 415-426 *)

\* Solve is called.
Solve(g) ==
    /\ Backend = "lpsolve"
    /\ Idle(g)
    /\ Begin(g, "solve_lock", [NoLoc EXCEPT !.op = "Solve"])
    /\ UNCHANGED <<scenario, handles, clone, mu, prob, vars, refs, ctxErr, glp>>

\* saveRef(ctx); put_abortfunc(prob, abortCallback, handle)
SolveWithContext(g, ctx) ==
    /\ Backend = "lpsolve"
    /\ Idle(g)
    /\ Len(refs) < MaxRefs
    /\ refs' = Append(refs, ctx)
    /\ prob' = [prob EXCEPT !.abort = Len(refs) + 1]
    /\ Begin(g, "solve_lock",
             [NoLoc EXCEPT !.op = "SolveWithContext", !.ctx = ctx, !.h = Len(refs) + 1])
    /\ UNCHANGED <<scenario, handles, clone, mu, vars, ctxErr, glp>>

\* model.mu.Lock() is entered
Solve_Lock(g) ==
    /\ pc[g] = "solve_lock"
    /\ CanLockRequest
    /\ mu' = LockRequest(g)
    /\ Goto(g, "solve_wait", loc[g])
    /\ UNCHANGED <<scenario, handles, clone, prob, vars, refs, ctxErr, glp>>

\* model.mu.Lock() returns; C.solve is entered
Solve_Locked(g) ==
    /\ pc[g] = "solve_wait"
    /\ CanLockAcquire(g)
    /\ mu' = LockAcquire(g)
    /\ Goto(g, "solve_call", loc[g])
    /\ UNCHANGED <<scenario, handles, clone, prob, vars, refs, ctxErr, glp>>

\* The switch without its case for TIMEOUT, which then falls to the default.
SolveOutcome_NoTimeout(code) ==
    IF code \in SuccessCodes THEN [res |-> code, err |-> Nil, panicked |-> FALSE]
    ELSE IF code \in FailureCodes \ {"TIMEOUT"}
    THEN [res |-> Nil, err |-> code, panicked |-> FALSE]
    ELSE [res |-> Nil, err |-> Nil, panicked |-> TRUE]

\* The switch on the return code of C.solve.
SolveOutcome(code) ==
    IF code \in SuccessCodes THEN [res |-> code, err |-> Nil, panicked |-> FALSE]
    ELSE IF code \in FailureCodes THEN [res |-> Nil, err |-> code, panicked |-> FALSE]
    ELSE [res |-> Nil, err |-> Nil, panicked |-> TRUE]

\* Solve returns (or panics) with outcome o; its deferred Unlock has run.
Solve_Done(g, code) ==
    LET o == SolveOutcome(code)
    IN IF loc[g].op = "SolveWithContext"
       THEN Goto(g, "swc_after",
                 [loc[g] EXCEPT !.code = code, !.res = o.res, !.err = o.err,
                                !.panicked = o.panicked])
       ELSE Return(g, [NoRet EXCEPT !.op = "Solve", !.res = o.res, !.err = o.err,
                                    !.panicked = o.panicked, !.code = code,
                                    !.solveRes = o.res, !.solveErr = o.err])

\* C.solve returns a code other than USERABORT.
Solve_Return(g, code) ==
    /\ pc[g] = "solve_call"
    /\ code # "USERABORT"
    /\ mu' = Unlock(g)
    /\ Solve_Done(g, code)
    /\ UNCHANGED <<scenario, handles, clone, prob, vars, refs, ctxErr, glp>>

\* C.solve polls the installed abort callback, which answers TRUE, and
\* returns USERABORT.
Solve_Abort(g) ==
    /\ pc[g] = "solve_call"
    /\ prob.abort # 0
    /\ abortCallback(prob.abort)
    /\ mu' = Unlock(g)
    /\ Solve_Done(g, "USERABORT")
    /\ UNCHANGED <<scenario, handles, clone, prob, vars, refs, ctxErr, glp>>

\* SolveWithContext without the errors.Is test: the error of Solve as it is.
SWC_Error_Raw(err, ctx) == err

\* SolveWithContext without its deferred put_abortfunc.
SWC_Uninstall_Missing(p) == p

\* The error SolveWithContext returns for the error err of Solve.
SWC_Error(err, ctx) == IF err = ErrUserAbort THEN ctxErr[ctx] ELSE err

\* The deferred put_abortfunc(prob, nil, nil)
SWC_Uninstall(p) == [p EXCEPT !.abort = 0]

\* SolveWithContext returns, or passes on the panic of Solve.
SWC_Return(g) ==
    /\ pc[g] = "swc_after"
    /\ prob' = SWC_Uninstall(prob)
    /\ LET l == loc[g]
       IN Return(g, [NoRet EXCEPT !.op = "SolveWithContext", !.res = l.res,
                                  !.err = IF l.panicked THEN Nil ELSE SWC_Error(l.err, l.ctx),
                                  !.panicked = l.panicked, !.ctx = l.ctx, !.h = l.h,
                                  !.code = l.code, !.solveRes = l.res, !.solveErr = l.err,
                                  !.ctxErrAtReturn = ctxErr[l.ctx]])
    /\ UNCHANGED <<scenario, handles, clone, mu, vars, refs, ctxErr, glp>>

-----------------------------------------------------------------------------
(* The foreign problem handles: NewModel, finishInitialization and           *)
(* finalizeModel, src/log.go 126-177, and NewModel of GLPK, golp.go 294-319  *)

\* The handle of the lp_solve Model, of its clone, of the GLPK Model.
Handles == {"model", "clone", "glpk"}

\* No handle allocated.  state: "none", "live" (allocated) or "deleted";
\* finalizer: "none", or the value runtime.SetFinalizer was called with: "model",
\* the *Model the constructor returns, or "local", the address of the local
\* variable whose copy the constructor returns; used: the program still
\* uses a Model value that holds the handle.
NoHandle == [state |-> "none", finalizer |-> "none", used |-> FALSE]

\* finishInitialization: saveRef(model) and runtime.SetFinalizer(model, ...)
\* on the Model that is returned to the caller.
finishInitialization == [state |-> "live", finalizer |-> "model", used |-> TRUE]

\* The value the finalizer was set on is unreachable: nothing but the dropped
\* Model value of the program and the registry of context.go refers to a
\* *Model; nothing refers to the local variable once the constructor returned.
Unreachable(h) ==
    CASE handles[h].finalizer = "model" ->
            ~handles[h].used /\ \A i \in 1..Len(refs) : refs[i] # h
      [] handles[h].finalizer = "local" -> TRUE
      [] OTHER -> FALSE

\* NewModel: make_lp, the options, finishInitialization.  optErr: one of the
\* options returns an error.
NewModel(g, optErr) ==
    /\ Backend = "lpsolve"
    /\ Idle(g)
    /\ handles["model"].state = "none"
    /\ IF optErr
       THEN /\ handles' = [handles EXCEPT !["model"] = [NoHandle EXCEPT !.state = "live"]]
            /\ refs' = refs
            /\ Return(g, [NoRet EXCEPT !.op = "NewModel", !.err = "applying model option"])
       ELSE /\ handles' = [handles EXCEPT !["model"] = finishInitialization]
            /\ refs' = Append(refs, "model")
            /\ Return(g, [NoRet EXCEPT !.op = "NewModel"])
    /\ UNCHANGED <<scenario, clone, mu, prob, vars, ctxErr, glp>>

\* NewModel (GLPK): glp_create_prob, SetFinalizer(&model, ...), return model.
G_NewModel_Call(g) ==
    /\ Backend = "glpk"
    /\ Idle(g)
    /\ handles["glpk"].state = "none"
    /\ handles' = [handles EXCEPT !["glpk"] =
                        [state |-> "live", finalizer |-> "local", used |-> TRUE]]
    /\ Return(g, [NoRet EXCEPT !.op = "NewModel"])
    /\ UNCHANGED <<scenario, clone, mu, prob, vars, refs, ctxErr, glp>>

\* The program drops its last reference to the Model.
Drop(h) ==
    /\ handles[h].used
    /\ \A g \in Procs : Idle(g)
    /\ handles' = [handles EXCEPT ![h].used = FALSE]
    /\ ret' = NoRet
    /\ UNCHANGED <<scenario, clone, pc, loc, mu, prob, vars, refs, ctxErr, glp>>

\* The garbage collector runs the finalizer of an unreachable value, once:
\* finalizeModel calls delete_lp / glp_delete_prob.
finalizeModel(h) ==
    /\ handles[h].finalizer # "none"
    /\ Unreachable(h)
    /\ handles' = [handles EXCEPT ![h].finalizer = "none", ![h].state = "deleted"]
    /\ ret' = NoRet
    /\ UNCHANGED <<scenario, clone, pc, loc, mu, prob, vars, refs, ctxErr, glp>>

-----------------------------------------------------------------------------
(* Model.Variables, src/log.go 243-248, and what its caller does with the    *)
(* slice                                                                     *)

\* Model.Variables under RLock: return model.vars.  The slice returned
\* (ret.res) is the slice header of Model.vars: it shares the array.
Variables_Call(g) ==
    /\ Backend = "lpsolve"
    /\ Idle(g)
    /\ CanRLock
    /\ Return(g, [NoRet EXCEPT !.op = "Variables", !.res = "model.vars", !.preVars = vars])
    /\ UNCHANGED <<scenario, handles, clone, mu, prob, vars, refs, ctxErr, glp>>

\* The caller stores the *Variable with index x in element k of the slice
\* Variables just returned: the store goes to the array behind the slice.
StoreElement(g, k, x) ==
    /\ Idle(g)
    /\ ret.op = "Variables"
    /\ k \in 1..Len(ret.preVars)
    /\ vars' = IF ret.res = "model.vars" THEN [vars EXCEPT ![k] = x] ELSE vars
    /\ Return(g, [NoRet EXCEPT !.op = "StoreElement", !.v = k, !.preVars = vars])
    /\ UNCHANGED <<scenario, handles, clone, mu, prob, refs, ctxErr, glp>>

-----------------------------------------------------------------------------
(* SolveResult.Value, PrimalValue, DualValue, src/log.go 525-547 *)

\* The slot addressed with the rows left out.
ResultSlot_Column(index, rows) == index + 1

\* C.int(v.index + v.model.ConstraintCount() + 1)
ResultSlot(index, rows) == index + rows + 1

\* The SolveResult of a Solve that succeeded is at hand: Solve just returned
\* it, or a value was just read from it.
HaveResult ==
    \/ ret.op \in {"Solve", "SolveWithContext"} /\ ret.res # Nil /\ ret.err = Nil
    \/ ret.op \in {"Value", "PrimalValue", "DualValue"}

\* get_var_primalresult / get_var_dualresult under RLock, with the row count
\* read by ConstraintCount() inside the call.
ReadResult(g, op, v) ==
    /\ Backend = "lpsolve"
    /\ Idle(g)
    /\ CanRLock
    /\ HaveResult
    /\ v \in 1..Len(vars)
    /\ Return(g, [NoRet EXCEPT !.op = op, !.v = v, !.res = ret.res,
                               !.slot = ResultSlot(vars[v], ConstraintCount)])
    /\ UNCHANGED <<scenario, handles, clone, mu, prob, vars, refs, ctxErr, glp>>

PrimalValue(g, v) == ReadResult(g, "PrimalValue", v)

Value(g, v) == ReadResult(g, "Value", v)

DualValue(g, v) == ReadResult(g, "DualValue", v)

\* The same query step by step, for callers that run beside others.
\* res.model.mu.RLock() of PrimalValue / DualValue returns.
PV_RLock(g, op, v) ==
    /\ Backend = "lpsolve"
    /\ Idle(g)
    /\ HaveResult
    /\ v \in 1..Len(vars)
    /\ CanRLock
    /\ mu' = [mu EXCEPT !.r = @ + 1]
    /\ Begin(g, "pv_count", [NoLoc EXCEPT !.op = op, !.v = v, !.res = ret.res])
    /\ UNCHANGED <<scenario, handles, clone, prob, vars, refs, ctxErr, glp>>

\* v.model.ConstraintCount() takes the read lock again, reads and releases
\* it; then the result is read and the deferred RUnlock runs.
PV_Count(g) ==
    /\ pc[g] = "pv_count"
    /\ CanRLock
    /\ mu' = [mu EXCEPT !.r = @ - 1]
    /\ Return(g, [NoRet EXCEPT !.op = loc[g].op, !.v = loc[g].v, !.res = loc[g].res,
                               !.slot = ResultSlot(vars[loc[g].v], ConstraintCount)])
    /\ UNCHANGED <<scenario, handles, clone, prob, vars, refs, ctxErr, glp>>

-----------------------------------------------------------------------------
(* Model.Clone, src/log.go 179-202, and the calls made on the clone *)

\* A *Variable: the Model it points to and its index.
Variable(model, index) == [model |-> model, index |-> index]

\* The *Variable values in Model.vars of the original: v.model = model.
ModelVariables == [k \in 1..Len(vars) |-> Variable("model", vars[k])]

\* No clone was made yet.
NoClone == [made |-> FALSE, prob |-> NewProb, vars |-> <<>>]

\* A clone made with make_lp in place of copy_lp.
copy_lp_Fresh(p) == NewProb

\* C.copy_lp: a problem object of its own with the rows, columns, name and
\* sense of p; no abort callback is polled on it.
copy_lp(p) == [p EXCEPT !.abort = 0]

\* A clone whose vars holds the pointers of the original.
CloneVariable_Shared(v) == v

\* newVars[i] = &Variable{model: newModel, index: v.index}
CloneVariable(v) == Variable("clone", v.index)

\* Model.Clone under RLock; finishInitialization saves the new Model in refs.
Clone(g) ==
    /\ Backend = "lpsolve"
    /\ Idle(g)
    /\ CanRLock
    /\ ~clone.made
    /\ Len(refs) < MaxRefs
    /\ clone' = [made |-> TRUE, prob |-> copy_lp(prob),
                 vars |-> [k \in 1..Len(vars) |-> CloneVariable(ModelVariables[k])]]
    /\ refs' = Append(refs, "clone")
    /\ handles' = [handles EXCEPT !["clone"] = finishInitialization]
    /\ Return(g, [NoRet EXCEPT !.op = "Clone"])
    /\ UNCHANGED <<scenario, mu, prob, vars, ctxErr, glp>>

\* The setters of todo applied in turn.
RECURSIVE ApplySetters(_, _)
ApplySetters(p, todo) ==
    IF todo = <<>> THEN p ELSE ApplySetters(ApplySetter(p, Head(todo)), Tail(todo))

\* A setter called on the *Variable v, or SetDirection called on the Model
\* v points to: it acts on v.model.prob.
SetOn(v, s) ==
    IF v.model = "clone"
    THEN clone' = [clone EXCEPT !.prob = ApplySetter(@, s)] /\ UNCHANGED prob
    ELSE prob' = ApplySetter(prob, s) /\ UNCHANGED clone

\* newModel.AddDefinedVariable, one caller
Clone_AddDefinedVariable(g, name, varType, coefficient, lowerBound, upperBound) ==
    /\ clone.made
    /\ Idle(g)
    /\ clone.prob.ncols < MaxCols
    /\ LET size == clone.prob.ncols
           index == NewIndex(size)
           added == [clone.prob EXCEPT !.ncols = @ + 1, !.cols = Append(@, NewColumn)]
           named == SetCol(added, index + 1, "name",
                           IF name = "" THEN SprintfV(size) ELSE name)
       IN clone' = [clone EXCEPT
                        !.vars = Append(@, Variable("clone", index)),
                        !.prob = ApplySetters(named,
                                    ADV_Setters(index, varType, coefficient,
                                                lowerBound, upperBound))]
    /\ Return(g, [NoRet EXCEPT !.op = "Clone.AddDefinedVariable", !.v = Len(clone.vars) + 1])
    /\ UNCHANGED <<scenario, handles, mu, prob, vars, refs, ctxErr, glp>>

\* newModel.AddConstraint with one of the clone's variables
Clone_AddConstraint(g, lower, upper, vs, coefs) ==
    /\ clone.made
    /\ Idle(g)
    /\ \A i \in 1..Len(vs) : vs[i] \in 1..Len(clone.vars)
    /\ \/ AC_Inconsistent(vs, coefs)
       \/ clone.prob.nrows + Len(AC_Calls(lower, upper)) <= MaxRows
    /\ LET r == [NoRet EXCEPT !.op = "Clone.AddConstraint", !.vs = vs, !.cs = coefs]
       IN IF AC_Inconsistent(vs, coefs)
          THEN clone' = clone /\ Return(g, [r EXCEPT !.err = ErrInconsistent])
          ELSE IF AC_Calls(lower, upper) # <<>> /\ Len(vs) = 0
          THEN clone' = clone /\ Return(g, [r EXCEPT !.panicked = TRUE])
          ELSE /\ clone' = [clone EXCEPT !.prob.nrows = @ + Len(AC_Calls(lower, upper))]
               /\ Return(g, r)
    /\ UNCHANGED <<scenario, handles, mu, prob, vars, refs, ctxErr, glp>>

\* newModel.SetDirection
Clone_SetDirection(g, dir) ==
    /\ clone.made
    /\ Idle(g)
    /\ SetOn(Variable("clone", 0), DirSetter(dir))
    /\ Return(g, [NoRet EXCEPT !.op = "Clone.SetDirection"])
    /\ UNCHANGED <<scenario, handles, mu, vars, refs, ctxErr, glp>>

\* SetBounds on the k-th *Variable of newModel.Variables()
Clone_SetBounds(g, k, lower, upper) ==
    /\ clone.made
    /\ Idle(g)
    /\ k \in 1..Len(clone.vars)
    /\ SetOn(clone.vars[k],
             Setter("SetBounds", clone.vars[k].index, ContinuousVariable, 0, lower, upper))
    /\ Return(g, [NoRet EXCEPT !.op = "Clone.SetBounds", !.v = k])
    /\ UNCHANGED <<scenario, handles, mu, vars, refs, ctxErr, glp>>

\* SetObjectiveCoefficient on the k-th *Variable of newModel.Variables()
Clone_SetObjectiveCoefficient(g, k, coef) ==
    /\ clone.made
    /\ Idle(g)
    /\ k \in 1..Len(clone.vars)
    /\ SetOn(clone.vars[k],
             Setter("SetObjectiveCoefficient", clone.vars[k].index, ContinuousVariable,
                    coef, NegInf, PosInf))
    /\ Return(g, [NoRet EXCEPT !.op = "Clone.SetObjectiveCoefficient", !.v = k])
    /\ UNCHANGED <<scenario, handles, mu, vars, refs, ctxErr, glp>>

\* newModel.Solve: C.solve on the clone's problem object
Clone_Solve(g, code) ==
    /\ clone.made
    /\ Idle(g)
    /\ code # "USERABORT"
    /\ LET o == SolveOutcome(code)
       IN Return(g, [NoRet EXCEPT !.op = "Clone.Solve", !.res = o.res, !.err = o.err,
                                  !.panicked = o.panicked, !.code = code,
                                  !.solveRes = o.res, !.solveErr = o.err])
    /\ UNCHANGED <<scenario, handles, clone, mu, prob, vars, refs, ctxErr, glp>>

-----------------------------------------------------------------------------
(* The convenience variants, src/log.go 260-277 *)

AddVariable(g, name) ==
    AddDefinedVariable(g, name, ContinuousVariable, 1, NegInf, PosInf)

AddBinaryVariable(g, name) ==
    AddDefinedVariable(g, name, BinaryVariable, 1, Fin(0), Fin(1))

AddIntegerVariable(g, name) ==
    AddDefinedVariable(g, name, IntegerVariable, 1, NegInf, PosInf)

-----------------------------------------------------------------------------
(* The GLPK backend, src/golp/golp.go 237-603.  It has no lock: it is      *)
(* modelled for one caller, every call one step.                            *)

\* A column as glp_add_cols creates it.
G_NewColumn == [name |-> "", kind |-> ContinuousVariable, coef |-> 0,
                type |-> "GLP_FX", lb |-> Fin(0), ub |-> Fin(0)]

\* NewModel: glp_create_prob, and the reserved entry 0 of ia, ja, ar.
G_NewModel == [ncols |-> 0, nrows |-> 0, cols |-> <<>>, rows |-> <<>>, vars |-> <<>>,
               ia |-> <<0>>, ja |-> <<0>>, ar |-> <<0>>, matrix |-> <<>>]

\* glp_set_col_bnds / glp_set_row_bnds: the bounds a type keeps.
G_Bnds(type, lb, ub) ==
    CASE type = "GLP_FR" -> [type |-> type, lb |-> Fin(0), ub |-> Fin(0)]
      [] type = "GLP_LO" -> [type |-> type, lb |-> lb, ub |-> Fin(0)]
      [] type = "GLP_UP" -> [type |-> type, lb |-> Fin(0), ub |-> ub]
      [] type = "GLP_DB" -> [type |-> type, lb |-> lb, ub |-> ub]
      [] type = "GLP_FX" -> [type |-> type, lb |-> lb, ub |-> lb]

\* Variable.SetBounds (GLPK): the switch
GVariable_BoundType(lower, upper) ==
    CASE IsInf(lower) /\ IsInf(upper) -> G_Bnds("GLP_FR", Fin(0), Fin(0))
      [] IsInf(lower) /\ ~IsInf(upper) -> G_Bnds("GLP_UP", Fin(0), upper)
      [] ~IsInf(lower) /\ IsInf(upper) -> G_Bnds("GLP_LO", lower, Fin(0))
      [] ~IsInf(lower) /\ ~IsInf(upper) /\ upper = lower -> G_Bnds("GLP_FX", lower, upper)
      [] OTHER -> G_Bnds("GLP_DB", lower, upper)

\* The switch with the case of two finite bounds ahead of upper == lower.
GConstraint_BoundType_DoubleFirst(lower, upper) ==
    CASE IsInf(lower) /\ IsInf(upper) -> G_Bnds("GLP_FR", Fin(0), Fin(0))
      [] IsInf(lower) /\ ~IsInf(upper) -> G_Bnds("GLP_UP", Fin(0), upper)
      [] ~IsInf(lower) /\ IsInf(upper) -> G_Bnds("GLP_LO", lower, Fin(0))
      [] OTHER -> G_Bnds("GLP_DB", lower, upper)

\* Model.AddConstraint (GLPK): the switch
GConstraint_BoundType(lower, upper) ==
    CASE IsInf(lower) /\ IsInf(upper) -> G_Bnds("GLP_FR", Fin(0), Fin(0))
      [] IsInf(lower) /\ ~IsInf(upper) -> G_Bnds("GLP_UP", Fin(0), upper)
      [] ~IsInf(lower) /\ IsInf(upper) -> G_Bnds("GLP_LO", lower, Fin(0))
      [] ~IsInf(lower) /\ ~IsInf(upper) /\ upper = lower -> G_Bnds("GLP_FX", lower, upper)
      [] OTHER -> G_Bnds("GLP_DB", lower, upper)

G_SetColBnds(m, col, b) ==
    [m EXCEPT !.cols[col].type = b.type, !.cols[col].lb = b.lb, !.cols[col].ub = b.ub]

\* Variable.SetType (GLPK): glp_set_col_kind
GVariable_SetType(m, index, vartype) ==
    IF vartype = BinaryVariable
    THEN G_SetColBnds([m EXCEPT !.cols[index + 1].kind = IntegerVariable],
                      index + 1, G_Bnds("GLP_DB", Fin(0), Fin(1)))
    ELSE [m EXCEPT !.cols[index + 1].kind = vartype]

\* Variable.SetBounds (GLPK)
GVariable_SetBounds(m, index, lower, upper) ==
    G_SetColBnds(m, index + 1, GVariable_BoundType(lower, upper))

\* Variable.GetBounds (GLPK)
GVariable_GetBounds(m, index) ==
    LET c == m.cols[index + 1] IN
    CASE c.type = "GLP_FR" -> <<NegInf, PosInf>>
      [] c.type = "GLP_UP" -> <<NegInf, c.ub>>
      [] c.type = "GLP_LO" -> <<c.lb, PosInf>>
      [] c.type = "GLP_FX" -> <<c.lb, c.lb>>
      [] c.type = "GLP_DB" -> <<c.lb, c.ub>>

\* Variable.SetCoefficient (GLPK)
GVariable_SetCoefficient(m, index, coef) == [m EXCEPT !.cols[index + 1].coef = coef]

\* Model.GetVariableCount (GLPK)
G_GetVariableCount == glp.ncols

\* Model.GetConstraintCount (GLPK)
G_GetConstraintCount == glp.nrows

\* The index given to the new Variable (GLPK).
G_NewIndex(size) == size

\* Model.AddDefinedVariable (GLPK), golp.go 387-407
G_AddDefinedVariable(g, name, varType, coefficient, lowerBound, upperBound) ==
    /\ Backend = "glpk"
    /\ Idle(g)
    /\ glp.ncols < MaxCols
    /\ LET size == G_GetVariableCount
           index == G_NewIndex(size)
           m1 == [glp EXCEPT !.ncols = size + 1, !.cols = Append(@, G_NewColumn),
                             !.vars = Append(@, index)]
           m2 == [m1 EXCEPT !.cols[index + 1].name = name]
           m3 == GVariable_SetCoefficient(GVariable_SetType(m2, index, varType),
                                          index, coefficient)
           m4 == IF varType # BinaryVariable
                 THEN GVariable_SetBounds(m3, index, lowerBound, upperBound)
                 ELSE m3
       IN /\ glp' = m4
          /\ Return(g, [NoRet EXCEPT !.op = "AddDefinedVariable", !.v = Len(glp.vars) + 1,
                                     !.name = name, !.kind = varType, !.coef = coefficient,
                                     !.lo = lowerBound, !.hi = upperBound])
    /\ UNCHANGED <<scenario, handles, clone, mu, prob, vars, refs, ctxErr>>

\* Variable.SetBounds (GLPK) called by the user of the package
G_SetBounds(g, v, lower, upper) ==
    /\ Backend = "glpk"
    /\ Idle(g)
    /\ v \in 1..Len(glp.vars)
    /\ glp' = GVariable_SetBounds(glp, glp.vars[v], lower, upper)
    /\ Return(g, [NoRet EXCEPT !.op = "SetBounds", !.v = v, !.lo = lower, !.hi = upper])
    /\ UNCHANGED <<scenario, handles, clone, mu, prob, vars, refs, ctxErr>>

\* A variant that stores the Variable's index as the column.
RECURSIVE G_Triplets_ZeroBased(_, _, _, _)
G_Triplets_ZeroBased(m, row, vs, coefs) ==
    IF vs = <<>> THEN m
    ELSE G_Triplets_ZeroBased([m EXCEPT !.ia = Append(@, row),
                                        !.ja = Append(@, m.vars[Head(vs)]),
                                        !.ar = Append(@, Head(coefs))],
                              row, Tail(vs), Tail(coefs))

\* The triplets AddConstraint appends for row.
RECURSIVE G_Triplets(_, _, _, _)
G_Triplets(m, row, vs, coefs) ==
    IF vs = <<>> THEN m
    ELSE G_Triplets([m EXCEPT !.ia = Append(@, row),
                              !.ja = Append(@, m.vars[Head(vs)] + 1),
                              !.ar = Append(@, Head(coefs))],
                    row, Tail(vs), Tail(coefs))

\* Model.AddConstraint (GLPK), golp.go 499-527
G_AddConstraint(g, lower, upper, vs, coefs) ==
    /\ Backend = "glpk"
    /\ Idle(g)
    /\ AC_Inconsistent(vs, coefs) \/ glp.nrows < MaxRows
    /\ IF AC_Inconsistent(vs, coefs)
       THEN /\ Return(g, [NoRet EXCEPT !.op = "AddConstraint", !.err = ErrInconsistent,
                                        !.vs = vs, !.cs = coefs])
            /\ UNCHANGED glp
       ELSE LET size == G_GetConstraintCount
                m1 == [glp EXCEPT !.nrows = size + 1,
                                  !.rows = Append(@, GConstraint_BoundType(lower, upper))]
            IN /\ glp' = G_Triplets(m1, size + 1, vs, coefs)
               /\ Return(g, [NoRet EXCEPT !.op = "AddConstraint", !.err = Nil,
                                           !.vs = vs, !.cs = coefs,
                                           !.lo = lower, !.hi = upper])
    /\ UNCHANGED <<scenario, handles, clone, mu, prob, vars, refs, ctxErr>>

\* A variant that loads the matrix only when none has been loaded yet.
G_loadMatrix_Once(m) ==
    IF m.matrix # <<>> THEN m
    ELSE [m EXCEPT !.matrix = [i \in 1..(Len(m.ia) - 1) |-> <<m.ia[i + 1], m.ja[i + 1], m.ar[i + 1]>>]]

\* Model.loadMatrix, golp.go 531-533: glp_load_matrix replaces the problem's
\* constraint matrix by the len(ia)-1 triplets in ia[1..], ja[1..], ar[1..].
G_loadMatrix(m) ==
    [m EXCEPT !.matrix = [i \in 1..(Len(m.ia) - 1) |-> <<m.ia[i + 1], m.ja[i + 1], m.ar[i + 1]>>]]

\* Model.SolveSimplex, SolveSimplexDual, SolveBranchCut (GLPK): loadMatrix,
\* then glp_simplex or glp_intopt, whose return code becomes the error.
G_Solve(g, method, err) ==
    /\ Backend = "glpk"
    /\ Idle(g)
    /\ glp' = G_loadMatrix(glp)
    /\ Return(g, [NoRet EXCEPT !.op = method, !.err = err, !.size = Len(glp.matrix)])
    /\ UNCHANGED <<scenario, handles, clone, mu, prob, vars, refs, ctxErr>>

-----------------------------------------------------------------------------
(* Inputs *)

Names == {"", "x"}

\* The (name, kind, coefficient, lower, upper) AddDefinedVariable is called with.
VarDefs == {<<"x", ContinuousVariable, 2, NegInf, Fin(1)>>,
            <<"x", IntegerVariable, 2, Fin(0), Fin(1)>>}

\* The (lower, upper) AddConstraint is called with: no bound, upper only,
\* fixed, double.
RowBounds == {<<NegInf, PosInf>>, <<NegInf, Fin(1)>>, <<Fin(1), Fin(1)>>, <<Fin(0), Fin(1)>>}

\* Sequences over S of length at most n.
SeqsUpTo(S, n) == UNION {[1..k -> S] : k \in 0..n}

\* Lists of pairwise distinct Variables of the Model.
Distinct(vs) == \A i, j \in 1..Len(vs) : i # j => vs[i] # vs[j]
VarLists == {vs \in SeqsUpTo(1..Len(vars), MaxArgs) : Distinct(vs)}
\* The GLPK runs pass them in the order of their creation.
Ascending(vs) == \A i, j \in 1..Len(vs) : i < j => vs[i] < vs[j]
G_VarLists == {vs \in SeqsUpTo(1..Len(glp.vars), MaxArgs) : Ascending(vs)}

\* Coefficient lists: 2, 1, 2, 1, ... cut at any length.
CoefLists == {[i \in 1..k |-> 1 + (i % 2)] : k \in 0..MaxArgs}

\* The (bounds, variables, coefficients) AddConstraint is called with: lists
\* of equal lengths with every pair of bounds, and lists of different lengths.
AC_Inputs ==
    {a \in RowBounds \X VarLists \X CoefLists :
        Len(a[2]) = Len(a[3]) \/ a[1] = <<Fin(0), Fin(1)>>}

\* What the goroutines of the concurrent runs pass.
ConcVarDefs == {<<"x", ContinuousVariable, 2, NegInf, PosInf>>,
                <<"", BinaryVariable, 1, Fin(0), Fin(1)>>}
ConcRowBounds == {<<NegInf, Fin(1)>>, <<Fin(0), Fin(1)>>}
ConcCodes == {"OPTIMAL", "INFEASIBLE", "PRESOLVED"}

\* The codes C.solve returns in the sequential runs: all of them where the
\* run only solves, three of them where it also builds the Model.
SeqCodes == IF scenario = "cancel" THEN AllCodes ELSE ConcCodes

-----------------------------------------------------------------------------
(* Specifications *)

InitCommon ==
    /\ pc = [g \in Procs |-> "idle"]
    /\ loc = [g \in Procs |-> NoLoc]
    /\ ret = NoRet
    /\ mu = NewMutex
    /\ prob = NewProb
    /\ vars = <<>>
    /\ refs = <<"model">>
    /\ ctxErr = [c \in Ctxs |-> Nil]
    /\ glp = G_NewModel
    /\ clone = NoClone
    /\ handles = [h \in Handles |->
                    CASE h = "model" -> finishInitialization
                      [] h = "glpk" -> [NoHandle EXCEPT !.state = "live", !.finalizer = "local",
                                                        !.used = TRUE]
                      [] OTHER -> NoHandle]

\* The steps inside AddDefinedVariable and the setters.
ADV_Step(g) ==
    \/ ADV_Lock(g)
    \/ ADV_Locked(g)
    \/ ADV_Critical(g)
    \/ Setter_Lock(g)
    \/ Setter_Locked(g)
    \/ Setter_Call(g)

\* Goroutines calling into one lp_solve Model concurrently.
Init == scenario \in {"build", "cancel"} /\ InitCommon

\* In scenario "build" the goroutines add variables and constraints and
\* solve; in scenario "cancel" they solve with and without a context.
Next ==
    \/ \E g \in Procs, d \in ConcVarDefs :
            scenario = "build" /\ AddDefinedVariable(g, d[1], d[2], d[3], d[4], d[5])
    \/ \E g \in Procs : ADV_Step(g)
    \/ \E g \in Procs, b \in ConcRowBounds, v \in 1..Len(vars) :
            scenario = "build" /\ AddConstraint(g, b[1], b[2], <<v>>, <<1>>)
    \/ \E g \in Procs : AC_Call(g)
    \/ \E g \in Procs : Solve(g)
    \/ \E g \in Procs, c \in Ctxs : scenario = "cancel" /\ SolveWithContext(g, c)
    \/ \E g \in Procs : Solve_Lock(g)
    \/ \E g \in Procs : Solve_Locked(g)
    \/ \E g \in Procs, code \in ConcCodes : Solve_Return(g, code)
    \/ \E g \in Procs : Solve_Abort(g)
    \/ \E g \in Procs : SWC_Return(g)
    \/ \E c \in Ctxs : scenario = "cancel" /\ CtxDone(c)

Spec == Init /\ [][Next]_vars_all

\* The scheduler runs every goroutine that can take a step, C.solve returns,
\* and sync.Mutex hands the lock to a goroutine that keeps waiting for it
\* (its starvation mode).
Running(g) ==
    \/ ADV_Locked(g) \/ ADV_Critical(g) \/ Setter_Locked(g) \/ Setter_Call(g)
    \/ AC_Call(g) \/ Solve_Locked(g) \/ SWC_Return(g)
    \/ \E code \in ConcCodes : Solve_Return(g, code)

Locking(g) == ADV_Lock(g) \/ Setter_Lock(g) \/ Solve_Lock(g)

FairSpec ==
    /\ Spec
    /\ \A g \in Procs : WF_vars_all(Running(g)) /\ SF_vars_all(Locking(g))

\* One caller at a time, on an lp_solve Model or on a GLPK Model.
SeqInit == scenario \in Scenarios /\ InitCommon

SeqNext ==
    \/ \E g \in SeqProcs, d \in VarDefs :
            scenario = "build" /\ AddDefinedVariable(g, d[1], d[2], d[3], d[4], d[5])
    \/ \E g \in SeqProcs : scenario = "plain" /\ AddVariable(g, "")
    \/ \E g \in SeqProcs : scenario = "plain" /\ AddBinaryVariable(g, "")
    \/ \E g \in SeqProcs : scenario = "plain" /\ AddIntegerVariable(g, "")
    \/ \E g \in SeqProcs : ADV_Step(g)
    \/ \E g \in SeqProcs, a \in AC_Inputs : AddConstraint(g, a[1][1], a[1][2], a[2], a[3])
    \/ \E g \in SeqProcs : AC_Call(g)
    \/ \E g \in SeqProcs, vs \in VarLists, cs \in CoefLists : SetObjectiveFunction(g, cs, vs)
    \/ \E g \in SeqProcs : SOF_Loop(g)
    \/ \E g \in SeqProcs : Solve(g)
    \/ \E g \in SeqProcs, c \in Ctxs : scenario = "cancel" /\ SolveWithContext(g, c)
    \/ \E g \in SeqProcs : Solve_Lock(g)
    \/ \E g \in SeqProcs : Solve_Locked(g)
    \/ \E g \in SeqProcs, code \in SeqCodes : Solve_Return(g, code)
    \/ \E g \in SeqProcs : Solve_Abort(g)
    \/ \E g \in SeqProcs : SWC_Return(g)
    \/ \E c \in Ctxs : scenario = "cancel" /\ CtxDone(c)
    \/ \E g \in SeqProcs, v \in 1..MaxCols : Value(g, v)
    \/ \E g \in SeqProcs, v \in 1..MaxCols : PrimalValue(g, v)
    \/ \E g \in SeqProcs, v \in 1..MaxCols : DualValue(g, v)
    \/ \E g \in SeqProcs, d \in VarDefs :
            G_AddDefinedVariable(g, d[1], d[2], d[3], d[4], d[5])
    \/ \E g \in SeqProcs, vs \in G_VarLists, cs \in CoefLists :
            G_AddConstraint(g, Fin(0), Fin(1), vs, cs)
    \/ \E g \in SeqProcs, method \in {"SolveSimplex", "SolveSimplexDual", "SolveBranchCut"},
            err \in {Nil, "glpk error"} :
            G_Solve(g, method, err)

SeqSpec == SeqInit /\ [][SeqNext]_vars_all

\* One variable is created with explicit attributes and its bounds are set
\* again, on an lp_solve Model or on a GLPK Model.
MaxAttrCols == 1

\* float64 values passed as bounds.
Floats == {NegInf, PosInf, Fin(0), Fin(1)}

AttrVarDefs ==
    {<<n, k, 2, lo, hi>> : n \in Names, k \in VariableTypes, lo \in Floats, hi \in Floats}

AttrInit == scenario \in {"build", "glpk"} /\ InitCommon

AttrNext ==
    \/ \E g \in SeqProcs, d \in AttrVarDefs :
            VariableCount < MaxAttrCols /\ AddDefinedVariable(g, d[1], d[2], d[3], d[4], d[5])
    \/ \E g \in SeqProcs : ADV_Step(g)
    \/ \E g \in SeqProcs, v \in 1..MaxAttrCols, lo \in Floats, hi \in Floats :
            SetBounds(g, v, lo, hi)
    \/ \E g \in SeqProcs, d \in AttrVarDefs :
            G_GetVariableCount < MaxAttrCols
                /\ G_AddDefinedVariable(g, d[1], d[2], d[3], d[4], d[5])
    \/ \E g \in SeqProcs, v \in 1..MaxAttrCols, lo \in Floats, hi \in Floats :
            G_SetBounds(g, v, lo, hi)

AttrSpec == AttrInit /\ [][AttrNext]_vars_all

\* The bounds of the variable and of the rows of a GLPK Model are set to
\* every pair of Floats.
CodecInit == scenario = "glpk" /\ InitCommon

CodecNext ==
    \/ \E g \in SeqProcs :
            G_GetVariableCount < MaxAttrCols
                /\ G_AddDefinedVariable(g, "x", ContinuousVariable, 1, NegInf, PosInf)
    \/ \E g \in SeqProcs, v \in 1..MaxAttrCols, lo \in Floats, hi \in Floats :
            G_SetBounds(g, v, lo, hi)
    \/ \E g \in SeqProcs, lo \in Floats, hi \in Floats :
            G_GetVariableCount >= 1 /\ G_AddConstraint(g, lo, hi, <<1>>, <<1>>)

CodecSpec == CodecInit /\ [][CodecNext]_vars_all

\* Goroutines add variables to one Model and solve it; a goroutine that has
\* a SolveResult reads values from it while the others go on.
LockNext ==
    \/ \E g \in Procs, d \in ConcVarDefs :
            scenario = "build" /\ AddDefinedVariable(g, d[1], d[2], d[3], d[4], d[5])
    \/ \E g \in Procs : ADV_Step(g)
    \/ \E g \in Procs : scenario = "build" /\ Solve(g)
    \/ \E g \in Procs : Solve_Lock(g)
    \/ \E g \in Procs : Solve_Locked(g)
    \/ \E g \in Procs, code \in ConcCodes : Solve_Return(g, code)
    \/ \E g \in Procs, op \in {"Value", "PrimalValue", "DualValue"}, v \in 1..MaxCols :
            PV_RLock(g, op, v)
    \/ \E g \in Procs : PV_Count(g)

LockSpec == Init /\ [][LockNext]_vars_all

\* Variables are added with the convenience variants; the caller asks for
\* Variables() and replaces an element of the slice it got.
SliceNext ==
    \/ \E g \in SeqProcs : scenario = "plain" /\ AddVariable(g, "")
    \/ \E g \in SeqProcs : scenario = "plain" /\ AddBinaryVariable(g, "")
    \/ \E g \in SeqProcs : scenario = "plain" /\ AddIntegerVariable(g, "")
    \/ \E g \in SeqProcs : ADV_Step(g)
    \/ \E g \in SeqProcs : scenario = "plain" /\ Variables_Call(g)
    \/ \E g \in SeqProcs, k \in 1..MaxCols, x \in 0..MaxCols : StoreElement(g, k, x)

SliceSpec == SeqInit /\ [][SliceNext]_vars_all

\* A Model is constructed, used, cloned and dropped, and the garbage
\* collector runs finalizers, on lp_solve or on GLPK.
LifeInit ==
    /\ scenario \in {"build", "glpk"}
    /\ pc = [g \in Procs |-> "idle"]
    /\ loc = [g \in Procs |-> NoLoc]
    /\ ret = NoRet
    /\ mu = NewMutex
    /\ prob = NewProb
    /\ vars = <<>>
    /\ refs = <<>>
    /\ ctxErr = [c \in Ctxs |-> Nil]
    /\ glp = G_NewModel
    /\ clone = NoClone
    /\ handles = [h \in Handles |-> NoHandle]

LifeNext ==
    \/ \E g \in SeqProcs, optErr \in BOOLEAN : NewModel(g, optErr)
    \/ \E g \in SeqProcs : G_NewModel_Call(g)
    \/ \E g \in SeqProcs, d \in ConcVarDefs :
            handles["model"].used /\ AddDefinedVariable(g, d[1], d[2], d[3], d[4], d[5])
    \/ \E g \in SeqProcs : ADV_Step(g)
    \/ \E g \in SeqProcs : handles["model"].used /\ Clone(g)
    \/ \E g \in SeqProcs, d \in ConcVarDefs :
            handles["glpk"].used /\ G_AddDefinedVariable(g, d[1], d[2], d[3], d[4], d[5])
    \/ \E h \in Handles : Drop(h)
    \/ \E h \in Handles : finalizeModel(h)

LifeSpec == LifeInit /\ [][LifeNext]_vars_all

\* A Model is built, cloned once, and then used by one caller: in scenario
\* "cloneA" only the clone is called after Clone, in "cloneB" only the original.
CloneInit == scenario \in {"cloneA", "cloneB"} /\ InitCommon

\* The original may be called.
OnOriginal == ~clone.made \/ scenario = "cloneB"

\* The clone may be called.
OnClone == clone.made /\ scenario = "cloneA"

CloneNext ==
    \/ \E g \in SeqProcs : OnOriginal /\ AddVariable(g, "")
    \/ \E g \in SeqProcs : OnOriginal /\ AddBinaryVariable(g, "")
    \/ \E g \in SeqProcs : ADV_Step(g)
    \/ \E g \in SeqProcs, b \in ConcRowBounds :
            OnOriginal /\ Len(vars) >= 1 /\ AddConstraint(g, b[1], b[2], <<1>>, <<1>>)
    \/ \E g \in SeqProcs : AC_Call(g)
    \/ \E g \in SeqProcs, dir \in {Minimize, Maximize} : OnOriginal /\ SetDirection(g, dir)
    \/ \E g \in SeqProcs, v \in 1..MaxCols :
            clone.made /\ OnOriginal /\ SetBounds(g, v, Fin(0), Fin(1))
    \/ \E g \in SeqProcs, v \in 1..MaxCols :
            clone.made /\ OnOriginal /\ SetObjectiveCoefficient(g, v, 2)
    \/ \E g \in SeqProcs : clone.made /\ OnOriginal /\ Solve(g)
    \/ \E g \in SeqProcs : Solve_Lock(g)
    \/ \E g \in SeqProcs : Solve_Locked(g)
    \/ \E g \in SeqProcs, code \in ConcCodes : Solve_Return(g, code)
    \/ \E g \in SeqProcs : Clone(g)
    \/ \E g \in SeqProcs, k \in {ContinuousVariable, BinaryVariable} :
            OnClone /\ Clone_AddDefinedVariable(g, "", k, 1, IF k = BinaryVariable THEN Fin(0) ELSE NegInf,
                                                IF k = BinaryVariable THEN Fin(1) ELSE PosInf)
    \/ \E g \in SeqProcs, b \in ConcRowBounds :
            OnClone /\ Clone_AddConstraint(g, b[1], b[2], <<1>>, <<1>>)
    \/ \E g \in SeqProcs, dir \in {Minimize, Maximize} : OnClone /\ Clone_SetDirection(g, dir)
    \/ \E g \in SeqProcs, k \in 1..MaxCols : OnClone /\ Clone_SetBounds(g, k, Fin(0), Fin(1))
    \/ \E g \in SeqProcs, k \in 1..MaxCols :
            OnClone /\ Clone_SetObjectiveCoefficient(g, k, 2)
    \/ \E g \in SeqProcs, code \in ConcCodes : OnClone /\ Clone_Solve(g, code)

CloneSpec == CloneInit /\ [][CloneNext]_vars_all

-----------------------------------------------------------------------------
(* Properties *)

\* The goroutines inside a call of op.
InCall(op) == {g \in Procs : pc[g] # "idle" /\ loc[g].op = op}

\* C1: under sequential use the k-th variable created has index k-1, the
\* indices of the existing variables never change, every creation grows the
\* column count by exactly one, and VariableCount() equals the solver's column
\* count and the length of Variables(), on both backends.
C1_SequentialIndices ==
    /\ \A k \in 1..Len(Variables) : Variables[k] = k - 1
    /\ VariableCount = Len(Variables)
    /\ Len(prob.cols) = VariableCount
    /\ \A g \in InCall("AddDefinedVariable") :
            pc[g] \in {"set_lock", "set_wait", "set_call"} =>
                /\ VariableCount = loc[g].size + 1
                /\ Variables[loc[g].v] = loc[g].size
    /\ (Backend = "lpsolve" /\ ret.op = "AddDefinedVariable") =>
            ret.v = Len(Variables) /\ Variables[ret.v] = ret.v - 1
    /\ \A k \in 1..Len(glp.vars) : glp.vars[k] = k - 1
    /\ G_GetVariableCount = Len(glp.vars)
    /\ Len(glp.cols) = G_GetVariableCount
    /\ (Backend = "glpk" /\ ret.op = "AddDefinedVariable") =>
            ret.v = Len(glp.vars) /\ glp.vars[ret.v] = ret.v - 1

\* The second variable is created after a constraint was added.
C1_Witness ==
    /\ ret.op = "AddDefinedVariable"
    /\ ret.v = 2
    /\ Variables = <<0, 1>>
    /\ ConstraintCount > 0

\* The codes C2 names as failures.
C2_Failures ==
    {"INFEASIBLE", "UNBOUNDED", "DEGENERATE", "NUMFAILURE", "USERABORT", "TIMEOUT",
     "PROCFAIL", "PROCBREAK", "FEASFOUND", "NOFEASFOUND", "NOMEMORY"}

\* C2: Solve returns (result with that status, nil) for OPTIMAL and SUBOPTIMAL,
\* (nil, the SolveError of the code) for each of the eleven failure codes,
\* panics for any other code, and never returns a result together with an error.
C2_SolveMapsCodeTotally ==
    ret.op \in {"Solve", "SolveWithContext"} =>
        /\ ret.code \in AllCodes
        /\ ret.code \in {"OPTIMAL", "SUBOPTIMAL"} =>
                ret.solveRes = ret.code /\ ret.solveErr = Nil /\ ~ret.panicked
        /\ ret.code \in C2_Failures =>
                ret.solveRes = Nil /\ ret.solveErr = ret.code /\ ~ret.panicked
        /\ ret.code \notin {"OPTIMAL", "SUBOPTIMAL"} \cup C2_Failures =>
                ret.panicked /\ ret.solveRes = Nil /\ ret.solveErr = Nil
        /\ ~(ret.solveRes # Nil /\ ret.solveErr # Nil)
        /\ ret.op = "Solve" => ret.res = ret.solveRes /\ ret.err = ret.solveErr

\* Solve returns the SolveError for TIMEOUT.
C2_Witness ==
    /\ ret.op = "Solve"
    /\ ret.code = "TIMEOUT"
    /\ ret.err = "TIMEOUT"
    /\ ret.res = Nil

\* C3: when the Solve inside SolveWithContext(ctx) ends with ErrUserAbort,
\* SolveWithContext returns ctx.Err() and never ErrUserAbort; any other
\* result, error or panic of Solve is passed on unchanged.
C3_AbortBecomesCtxErr ==
    ret.op = "SolveWithContext" =>
        /\ ret.res = ret.solveRes
        /\ ret.solveErr = ErrUserAbort =>
                ret.err = ret.ctxErrAtReturn /\ ret.err # ErrUserAbort /\ ~ret.panicked
        /\ ret.solveErr # ErrUserAbort => ret.err = ret.solveErr
        /\ ret.panicked <=> ret.code \in OtherCodes

\* A solve under a context whose deadline passed returns DeadlineExceeded.
C3_Witness ==
    /\ ret.op = "SolveWithContext"
    /\ ret.solveErr = ErrUserAbort
    /\ ret.ctx = "ctxTimeout"
    /\ ret.err = "DeadlineExceeded"

\* C4: the abort callback is installed only while a SolveWithContext is in
\* progress, it is uninstalled when SolveWithContext returns or panics, and a
\* plain Solve is aborted only while another SolveWithContext is in progress.
C4_AbortUninstalled ==
    /\ prob.abort # 0 =>
            \E g \in InCall("SolveWithContext") : loc[g].h = prob.abort
    /\ ret.op = "SolveWithContext" => prob.abort = 0
    /\ \A g \in InCall("Solve") :
            (pc[g] = "solve_call" /\ prob.abort # 0 /\ abortCallback(prob.abort)) =>
                InCall("SolveWithContext") \ {g} # {}

\* A plain Solve is in the solver after a SolveWithContext whose context is
\* done has returned.
C4_Witness ==
    /\ InCall("SolveWithContext") = {}
    /\ \E g \in InCall("Solve") : pc[g] = "solve_call"
    /\ \E h \in 1..Len(refs) : IsContext(refs[h]) /\ ctxErr[refs[h]] # Nil
    /\ prob.abort = 0

\* C5: every mutating operation makes its solver calls holding the Model's
\* exclusive lock, so while one goroutine is inside C.solve no other goroutine
\* executes a solver call on the Model.
C5_SolverCallsUnderLock ==
    /\ \A g \in Procs : InSolverCall(g) => (mu.w = g /\ mu.held)
    /\ \A g, h \in Procs :
            (g # h /\ pc[g] = "solve_call") => ~InSolverCall(h)

\* C6: two concurrent Solve calls are never both inside C.solve, and every
\* Solve that was called returns, C.solve terminating and the scheduler and
\* the mutex being fair.
C6_SolvesSerialised ==
    /\ [](Cardinality({g \in Procs : pc[g] = "solve_call"}) <= 1)
    /\ \A g \in Procs :
            (pc[g] \in {"solve_lock", "solve_wait", "solve_call"}) ~> (pc[g] = "idle")

\* One Solve is inside C.solve and the other waits for the lock.
C6_Witness ==
    /\ InCall("Solve") = Procs
    /\ \E g, h \in Procs :
            /\ pc[g] = "solve_call"
            /\ pc[h] = "solve_lock"
            /\ mu.w = g /\ mu.held

\* C7: the Variables created by concurrent AddDefinedVariable calls have
\* pairwise distinct indices that cover 0..n-1.
C7_ConcurrentIndicesDistinct ==
    /\ Distinct(Variables)
    /\ {Variables[k] : k \in 1..Len(Variables)} = 0..(Len(Variables) - 1)

\* C8: AddConstraint with lists of different lengths returns the validation
\* error in the step it is called in, without entering a solver call, and
\* leaves the rows, the columns, the variable store and GLPK's triplet arrays
\* as they were.
C8_MismatchRejected ==
    [][(ret'.op = "AddConstraint" /\ Len(ret'.vs) # Len(ret'.cs)) =>
            /\ ret'.err = ErrInconsistent
            /\ ~ret'.panicked
            /\ pc[ret'.g] = "idle"
            /\ UNCHANGED <<pc, prob, vars, glp>>]_vars_all

\* A mismatched AddConstraint is rejected on a Model that has a row.
C8_Witness ==
    /\ ret.op = "AddConstraint"
    /\ Len(ret.vs) # Len(ret.cs)
    /\ ret.err = ErrInconsistent
    /\ Backend = "lpsolve"
    /\ ConstraintCount > 0

\* C9: SetObjectiveFunction with lists of different lengths returns a
\* validation error as a value and changes no objective coefficient.
C9_MismatchRejected ==
    (ret.op = "SetObjectiveFunction" /\ Len(ret.vs) # Len(ret.cs)) =>
        /\ ~ret.panicked
        /\ ret.err # Nil
        /\ \A k \in 1..Len(Variables) :
                Variable_Coefficient(prob, Variables[k])
                    = Variable_Coefficient(ret.pre, Variables[k])

\* The Variables of the list vs.
Listed(vs) == {vs[i] : i \in 1..Len(vs)}

\* C10: with lists of equal length and pairwise distinct variables,
\* SetObjectiveFunction returns nil, every vars[i].Coefficient() is coefs[i],
\* and the coefficient, kind, bounds and index of the variables that are not
\* listed are what they were.
C10_ObjectiveSet ==
    (ret.op = "SetObjectiveFunction" /\ Len(ret.vs) = Len(ret.cs) /\ Distinct(ret.vs)) =>
        /\ ~ret.panicked
        /\ ret.err = Nil
        /\ \A i \in 1..Len(ret.vs) :
                Variable_Coefficient(prob, Variables[ret.vs[i]]) = ret.cs[i]
        /\ Variables = ret.preVars
        /\ \A v \in (1..Len(Variables)) \ Listed(ret.vs) :
                /\ Variable_Coefficient(prob, Variables[v])
                        = Variable_Coefficient(ret.pre, Variables[v])
                /\ Variable_Type(prob, Variables[v]) = Variable_Type(ret.pre, Variables[v])
                /\ Variable_Bounds(prob, Variables[v]) = Variable_Bounds(ret.pre, Variables[v])

\* The coefficient of a binary variable is set from 1 to 2; a second variable
\* is not listed.
C10_Witness ==
    /\ ret.op = "SetObjectiveFunction"
    /\ ret.err = Nil
    /\ Len(ret.vs) = 1 /\ Len(ret.cs) = 1
    /\ Len(Variables) = 2
    /\ Variable_Type(prob, Variables[ret.vs[1]]) = BinaryVariable
    /\ Variable_Coefficient(ret.pre, Variables[ret.vs[1]]) = 1
    /\ Variable_Coefficient(prob, Variables[ret.vs[1]]) = 2

\* C11: right after Clone returns, the clone has the name, the direction, the
\* variable count and the constraint count of the original, and its vars
\* holds, position by position, a Variable with the index of the original's
\* Variable that points to the clone and is no Variable of the original.
C11_CloneEqualsOriginal ==
    ret.op = "Clone" =>
        /\ clone.made
        /\ Model_Name(clone.prob) = Model_Name(prob)
        /\ Model_Direction(clone.prob) = Model_Direction(prob)
        /\ clone.prob.ncols = VariableCount
        /\ clone.prob.nrows = ConstraintCount
        /\ Len(clone.vars) = Len(ModelVariables)
        /\ \A k \in 1..Len(clone.vars) :
              /\ clone.vars[k].index = ModelVariables[k].index
              /\ clone.vars[k].model = "clone"
              /\ \A j \in 1..Len(ModelVariables) : clone.vars[k] # ModelVariables[j]

\* Clone returned the copy of a minimised Model with two variables and a row.
C11_Witness ==
    /\ ret.op = "Clone"
    /\ Len(clone.vars) = 2
    /\ clone.prob.nrows >= 1
    /\ clone.prob.dir = Minimize

\* C12: once a clone exists, no call made on the clone changes the original's
\* problem or variable list, and no call made on the original changes the
\* clone's.
C12_CloneIndependent ==
    [][clone.made =>
          /\ (ret'.op \in {"Clone.AddDefinedVariable", "Clone.AddConstraint",
                            "Clone.SetDirection", "Clone.SetBounds",
                            "Clone.SetObjectiveCoefficient", "Clone.Solve"}
                  => UNCHANGED <<prob, vars>>)
          /\ (scenario = "cloneB" => UNCHANGED clone)]_vars_all

\* After calls on the clone only, it differs from the original in direction,
\* variable count, constraint count and the bounds of the first variable.
C12_Witness ==
    /\ scenario = "cloneA"
    /\ clone.made
    /\ clone.prob.dir # prob.dir
    /\ clone.prob.ncols > prob.ncols
    /\ clone.prob.nrows > prob.nrows
    /\ prob.ncols >= 1
    /\ clone.prob.cols[1].lo # prob.cols[1].lo
    /\ clone.prob.cols[1].coef # prob.cols[1].coef

\* The bounds (lower, upper) stand for: an infinite lower bound is -Inf, an
\* infinite upper bound is +Inf.
Normalised(lower, upper) ==
    <<IF IsInf(lower) THEN NegInf ELSE lower, IF IsInf(upper) THEN PosInf ELSE upper>>

\* C13: a Binary variable reports bounds [0,1]: right after AddDefinedVariable
\* created it, whatever bounds were passed, and right after a SetBounds call
\* on a variable that was Binary at the call.
C13_BinaryBoundsFixed ==
    /\ (Backend = "lpsolve" /\ ret.op = "AddDefinedVariable" /\ ret.kind = BinaryVariable)
            => Variable_Bounds(prob, Variables[ret.v]) = <<Fin(0), Fin(1)>>
    /\ (Backend = "lpsolve" /\ ret.op = "SetBounds"
            /\ Variable_Type(ret.pre, Variables[ret.v]) = BinaryVariable)
            => Variable_Bounds(prob, Variables[ret.v]) = <<Fin(0), Fin(1)>>

\* C14: the variable AddDefinedVariable returns for bounds lower <= upper
\* reports a non-empty name (the one passed, when one was passed), the kind
\* and the coefficient passed, and the bounds passed, [0,1] when Binary.
C14_CreatedAsDefined ==
    (Backend = "lpsolve" /\ ret.op = "AddDefinedVariable" /\ FLeq(ret.lo, ret.hi)) =>
        LET index == Variables[ret.v] IN
        /\ Variable_Name(prob, index) # ""
        /\ ret.name # "" => Variable_Name(prob, index) = ret.name
        /\ Variable_Type(prob, index) = ret.kind
        /\ Variable_Coefficient(prob, index) = ret.coef
        /\ Variable_Bounds(prob, index) =
                IF ret.kind = BinaryVariable THEN <<Fin(0), Fin(1)>>
                ELSE Normalised(ret.lo, ret.hi)

\* C15: right after SetBounds(lower, upper) returns, Bounds (lp_solve) and
\* GetBounds (GLPK) report lower and upper with infinities normalised.
C15_BoundsRoundTrip ==
    ret.op = "SetBounds" =>
        (IF Backend = "glpk"
         THEN GVariable_GetBounds(glp, glp.vars[ret.v])
         ELSE Variable_Bounds(prob, Variables[ret.v])) = Normalised(ret.lo, ret.hi)

\* The variant the rule of the bound codec gives for (lower, upper).
CodecVariants(lower, upper) ==
    {t \in {"GLP_FR", "GLP_UP", "GLP_LO", "GLP_FX", "GLP_DB"} :
        \/ t = "GLP_FR" /\ IsInf(lower) /\ IsInf(upper)
        \/ t = "GLP_UP" /\ IsInf(lower) /\ ~IsInf(upper)
        \/ t = "GLP_LO" /\ ~IsInf(lower) /\ IsInf(upper)
        \/ t = "GLP_FX" /\ ~IsInf(lower) /\ ~IsInf(upper) /\ lower = upper
        \/ t = "GLP_DB" /\ ~IsInf(lower) /\ ~IsInf(upper) /\ lower # upper}

\* C16: the bound type stored by SetBounds for a variable and by
\* AddConstraint for a row is the one variant the rule gives for the pair
\* passed (Free, UpperOnly, LowerOnly, Fixed for equal finite bounds, Double
\* otherwise), and the variable switch and the row switch agree on the pair.
C16_CodecSelectsOneVariant ==
    (Backend = "glpk" /\ ret.op \in {"SetBounds", "AddConstraint"} /\ ret.err = Nil) =>
        /\ Cardinality(CodecVariants(ret.lo, ret.hi)) = 1
        /\ ret.op = "SetBounds" =>
                glp.cols[glp.vars[ret.v] + 1].type \in CodecVariants(ret.lo, ret.hi)
        /\ ret.op = "AddConstraint" =>
                glp.rows[glp.nrows].type \in CodecVariants(ret.lo, ret.hi)
        /\ GVariable_BoundType(ret.lo, ret.hi).type = GConstraint_BoundType(ret.lo, ret.hi).type

\* A row was added with equal finite bounds after the variable was given
\* equal finite bounds: both are Fixed.
C16_Witness ==
    /\ Backend = "glpk"
    /\ ret.op = "AddConstraint"
    /\ ret.lo = Fin(1) /\ ret.hi = Fin(1)
    /\ glp.rows[glp.nrows].type = "GLP_FX"
    /\ glp.ncols >= 1
    /\ glp.cols[1].type = "GLP_FX" /\ glp.cols[1].lb = Fin(1)

\* C17: an lp_solve AddConstraint call with lists of equal length returns
\* nil and has added exactly one row when a bound is finite and none when
\* both are infinite; no step of the call changes the variable count or the
\* list of variables and their indices.
C17_OneRowPerConstraint ==
    /\ []((Backend = "lpsolve" /\ ret.op = "AddConstraint" /\ Len(ret.vs) = Len(ret.cs)) =>
            /\ ~ret.panicked
            /\ ret.err = Nil
            /\ ConstraintCount =
                    ret.size + (IF IsInf(ret.lo) /\ IsInf(ret.hi) THEN 0 ELSE 1))
    /\ [][(Backend = "lpsolve"
                /\ (ret'.op = "AddConstraint" \/ \E g \in SeqProcs : pc'[g] = "ac_call"))
            => (VariableCount' = VariableCount /\ Variables' = Variables)]_vars_all

\* C18: Value, PrimalValue and DualValue called on the result of a Solve that
\* succeeded read slot v.index + ConstraintCount() + 1 with the row count of
\* the time of the query; the slot lies in rowCount+1 .. rowCount+colCount, is
\* the slot of the column created for v, and no other Variable has it.
C18_ResultSlot ==
    ret.op \in {"Value", "PrimalValue", "DualValue"} =>
        /\ ret.slot = Variables[ret.v] + ConstraintCount + 1
        /\ ret.slot \in (ConstraintCount + 1)..(ConstraintCount + VariableCount)
        /\ ret.slot = ConstraintCount + ret.v
        /\ \A w \in 1..Len(Variables) :
                w # ret.v => Variables[w] + ConstraintCount + 1 # ret.slot

\* The dual value of the second variable is read with two rows present.
C18_Witness ==
    /\ ret.op = "DualValue"
    /\ ret.v = 2
    /\ ConstraintCount = 2
    /\ ret.slot = 4

\* C19: when C.solve returns PRESOLVED, Solve returns a nil result and
\* ErrPresolved, and does not panic.
C19_PresolvedIsAnError ==
    (ret.op = "Solve" /\ ret.code = "PRESOLVED") =>
        /\ ~ret.panicked
        /\ ret.solveRes = Nil
        /\ ret.solveErr = ErrPresolved

\* C20: when SolveWithContext returns, the registry entry saved for its
\* context is gone.
C20_RegistryEntryRemoved ==
    ret.op = "SolveWithContext" => loadRef(ret.h) = None

\* C21: the name generated for a variable added with an empty name differs
\* from the name of every other Variable of the Model, at the return of the
\* AddDefinedVariable call that generated it.
C21_GeneratedNamesUnique ==
    (Backend = "lpsolve" /\ ret.op = "AddDefinedVariable" /\ ret.name = "") =>
        \A j \in 1..Len(Variables) :
            j # ret.v =>
                Variable_Name(prob, Variables[j]) # Variable_Name(prob, Variables[ret.v])

\* C22: a handle that a constructor has allocated has a release registered
\* when the constructor returns; it is not deleted while the program uses a
\* Model that holds it; and once the program has dropped the Model, the
\* handle is deleted or its registered release can run.
C22_HandleReleasedOnce ==
    \A h \in Handles :
        /\ (handles[h].state = "live" /\ \A g \in Procs : Idle(g))
                => handles[h].finalizer # "none"
        /\ handles[h].state = "deleted" => ~handles[h].used
        /\ (handles[h].state = "live" /\ ~handles[h].used)
                => handles[h].finalizer # "none" /\ Unreachable(h)

\* C23: after the caller has replaced an element of the slice Variables()
\* returned, the Model's variable list is what it was before.
C23_VariablesReturnsCopy ==
    ret.op = "StoreElement" => Variables = ret.preVars

\* C24: the GLPK Model's ia, ja and ar always have one length and keep
\* entry 0 unused; an accepted AddConstraint appends one entry per variable
\* passed, carrying the new row's number, the variable's index plus one and
\* its coefficient, and no other step changes the three lists, so their
\* length is one plus the number of variables of all accepted constraints.
C24_TripletLists ==
    /\ [](/\ Len(glp.ia) = Len(glp.ja) /\ Len(glp.ja) = Len(glp.ar)
          /\ glp.ia[1] = 0 /\ glp.ja[1] = 0 /\ glp.ar[1] = 0
          /\ \A i \in 2..Len(glp.ia) : glp.ia[i] \in 1..glp.nrows)
    /\ [][IF Backend = "glpk" /\ ret'.op = "AddConstraint" /\ ret'.err = Nil
          THEN /\ glp'.nrows = glp.nrows + 1
               /\ glp'.ia = glp.ia \o [i \in 1..Len(ret'.vs) |-> glp'.nrows]
               /\ glp'.ja = glp.ja \o [i \in 1..Len(ret'.vs) |-> glp.vars[ret'.vs[i]] + 1]
               /\ glp'.ar = glp.ar \o ret'.cs
          ELSE /\ glp'.ia = glp.ia /\ glp'.ja = glp.ja /\ glp'.ar = glp.ar]_vars_all

C24_Witness ==
    /\ Backend = "glpk" /\ ret.op = "AddConstraint" /\ ret.err = Nil
    /\ glp.nrows = 2 /\ Len(ret.vs) = 2 /\ Len(glp.ia) >= 4

\* C25: on a GLPK Model, AddConstraint leaves the matrix loaded into the
\* problem as it is, and every SolveSimplex, SolveSimplexDual and
\* SolveBranchCut hands the solver the matrix of all triplets recorded so far,
\* those of constraints added after an earlier solve included.
C25_MatrixLoadedAtSolve ==
    [][/\ (Backend = "glpk" /\ ret'.op = "AddConstraint") => glp'.matrix = glp.matrix
       /\ (Backend = "glpk" /\ ret'.op \in {"SolveSimplex", "SolveSimplexDual", "SolveBranchCut"})
            => /\ Len(glp'.matrix) = Len(glp.ia) - 1
               /\ \A i \in 1..Len(glp'.matrix) :
                        glp'.matrix[i] = <<glp.ia[i + 1], glp.ja[i + 1], glp.ar[i + 1]>>
               /\ glp'.ia = glp.ia /\ glp'.ja = glp.ja /\ glp'.ar = glp.ar]_vars_all

C25_Witness ==
    /\ Backend = "glpk"
    /\ ret.op \in {"SolveSimplex", "SolveSimplexDual", "SolveBranchCut"}
    /\ ret.size >= 1
    /\ Len(glp.matrix) > ret.size

\* C26: a PrimalValue, Value or DualValue that has taken the Model's read
\* lock never has to wait for it inside the same call: whatever the other
\* goroutines have requested, it can take the lock again and return.
C26_QueryNeverWaits ==
    \A g \in Procs : pc[g] = "pv_count" => CanRLock

\* C27: while a SolveWithContext(ctx) is inside C.solve, the callback
\* installed in the problem is the one with this call's own ctx, and a
\* SolveWithContext whose solve ended with USERABORT has a ctx that is done.
C27_OwnContextPolled ==
    \A g \in InCall("SolveWithContext") :
        /\ pc[g] = "solve_call" => prob.abort = loc[g].h
        /\ loc[g].code = "USERABORT" => ctxErr[loc[g].ctx] # Nil

\* C28: SolveWithContext never returns a nil result together with a nil
\* error.
C28_ResultOrError ==
    (ret.op = "SolveWithContext" /\ ~ret.panicked) => ~(ret.res = Nil /\ ret.err = Nil)

\* C29: while a Solve is inside C.solve, every column an AddDefinedVariable
\* in progress has added already carries the attributes the call was given:
\* the setters the call has still to make would change nothing.
C29_NoPartlyCreatedVariable ==
    \A g, h \in Procs :
        (pc[g] = "solve_call" /\ h \in InCall("AddDefinedVariable")
            /\ pc[h] \in {"set_lock", "set_wait"})
        => ApplySetters(prob, loc[h].todo) = prob

\* C30: on an lp_solve Model, AddConstraint called with an empty list of
\* variables, an empty list of coefficients and at least one finite bound
\* returns and does not panic.
C30_EmptyConstraintReturns ==
    (Backend = "lpsolve" /\ ret.op = "AddConstraint" /\ ret.vs = <<>> /\ ret.cs = <<>>
        /\ (~IsInf(ret.lo) \/ ~IsInf(ret.hi)))
    => ~ret.panicked

=============================================================================
